---------------------------- MODULE Spec2Model ----------------------------
(***************************************************************************)
(* Model of model_loader_ddbb_chat.py: a natural-language-to-SQL           *)
(* assistant.  A text is a sequence of one-character strings, so that      *)
(* strip(), lower(), startswith() and the re.sub() calls of the program    *)
(* are computed character by character as Python computes them.            *)
(***************************************************************************)
EXTENDS Integers, Sequences, FiniteSets, TLC

(***************************************************************************)
(* Bounds of the model.                                                    *)
(***************************************************************************)
\* Longest text drawn as an input of limpiar_markdown.
MaxLenTexto == 5
\* Number of questions read by the main loop in one run.
MaxCiclos == 2

(***************************************************************************)
(* Text primitives (Python str methods).                                   *)
(***************************************************************************)
\* The backquote character (a string literal cannot hold it).
BQ == "bq"

\* Characters str.strip() and the regex class \s remove, among those used.
Blancos == {" ", "\n"}

\* str.lower() on one character.
LowerChar(c) ==
  CASE c = "A" -> "a" [] c = "B" -> "b" [] c = "C" -> "c" [] c = "D" -> "d"
    [] c = "E" -> "e" [] c = "F" -> "f" [] c = "G" -> "g" [] c = "H" -> "h"
    [] c = "I" -> "i" [] c = "J" -> "j" [] c = "K" -> "k" [] c = "L" -> "l"
    [] c = "M" -> "m" [] c = "N" -> "n" [] c = "O" -> "o" [] c = "P" -> "p"
    [] c = "Q" -> "q" [] c = "R" -> "r" [] c = "S" -> "s" [] c = "T" -> "t"
    [] c = "U" -> "u" [] c = "V" -> "v" [] c = "W" -> "w" [] c = "X" -> "x"
    [] c = "Y" -> "y" [] c = "Z" -> "z" [] OTHER -> c

\* str.lower()
Lower(t) == [i \in 1..Len(t) |-> LowerChar(t[i])]

\* str.strip(): drops the leading and the trailing whitespace.
Strip(t) ==
  LET keep == {i \in 1..Len(t) : t[i] \notin Blancos}
  IN IF keep = {} THEN <<>>
     ELSE LET lo == CHOOSE i \in keep : \A j \in keep : i <= j
              hi == CHOOSE i \in keep : \A j \in keep : j <= i
          IN SubSeq(t, lo, hi)

\* str.startswith()
StartsWith(t, p) == Len(t) >= Len(p) /\ SubSeq(t, 1, Len(p)) = p

\* The text from position i on.
Desde(t, i) == SubSeq(t, i, Len(t))

(***************************************************************************)
(* limpiar_markdown: five substitutions d(.+?)d -> \1, then strip().       *)
(***************************************************************************)
\* Whether t holds delimiter d at position i.
Esta(d, t, i) == i + Len(d) - 1 <= Len(t) /\ SubSeq(t, i, i + Len(d) - 1) = d

\* Positions where the closing delimiter of a match opened at i may stand:
\* after at least one character, none of them a line break (the regex "."
\* does not match "\n").
Cierres(d, t, i) ==
  {j \in (i + Len(d) + 1)..(Len(t) - Len(d) + 1) :
      /\ Esta(d, t, j)
      /\ \A k \in (i + Len(d))..(j - 1) : t[k] # "\n"}

\* Positions where a match of d(.+?)d starts.
Inicios(d, t) == {i \in 1..Len(t) : Esta(d, t, i) /\ Cierres(d, t, i) # {}}

Minimo(S) == CHOOSE x \in S : \A y \in S : x <= y

RECURSIVE SubDelim(_, _)
\* re.sub(d + "(.+?)" + d, r"\1", t): the leftmost match, its group lazy,
\* replaced by the group, and the scan going on after the match.
SubDelim(d, t) ==
  IF Inicios(d, t) = {} THEN t
  ELSE LET i == Minimo(Inicios(d, t))
           j == Minimo(Cierres(d, t, i))
       IN SubSeq(t, 1, i - 1) \o SubSeq(t, i + Len(d), j - 1)
            \o SubDelim(d, Desde(t, j + Len(d)))

\* The delimiters of the five patterns, in the order of the list patrones.
patrones == << <<"*", "*">>, <<"_", "_">>, <<"*">>, <<"_">>, <<BQ>> >>

RECURSIVE AplicarPatrones(_, _)
\* The for loop over patrones, from pattern i on.
AplicarPatrones(i, t) ==
  IF i > Len(patrones) THEN t
  ELSE AplicarPatrones(i + 1, SubDelim(patrones[i], t))

limpiar_markdown(texto) == Strip(AplicarPatrones(1, texto))

(***************************************************************************)
(* The code-fence substitution of generar_sql.                             *)
(***************************************************************************)
Valla == <<BQ, BQ, BQ>>
VallaSql == <<BQ, BQ, BQ, "s", "q", "l">>

\* Length of the run of whitespace of t that starts at position i (\s*,
\* greedy).
BlancosDesde(t, i) ==
  Minimo({k \in 0..(Len(t) - i + 1) : i + k > Len(t) \/ t[i + k] \notin Blancos})

\* Length of the match of ```sql\s*|\s*``` at position i, 0 when neither
\* alternative matches there; the first alternative is tried first.
LargoValla(t, i) ==
  IF Esta(VallaSql, t, i)
  THEN Len(VallaSql) + BlancosDesde(t, i + Len(VallaSql))
  ELSE IF Esta(Valla, t, i + BlancosDesde(t, i))
       THEN BlancosDesde(t, i) + Len(Valla)
       ELSE 0

RECURSIVE QuitarVallas(_)
\* re.sub(r"```sql\s*|\s*```", "", t)
QuitarVallas(t) ==
  LET ini == {i \in 1..Len(t) : LargoValla(t, i) > 0}
  IN IF ini = {} THEN t
     ELSE LET i == Minimo(ini)
          IN SubSeq(t, 1, i - 1) \o QuitarVallas(Desde(t, i + LargoValla(t, i)))

(***************************************************************************)
(* Python values held by a result list or by a JSON document: a string, a  *)
(* row tuple of integers, or None.                                         *)
(***************************************************************************)
Str(t) == [t |-> "str", v |-> t]
Tupla(f) == [t |-> "tuple", v |-> f]
Nulo == [t |-> "null", v |-> <<>>]

Digito(d) ==
  CASE d = 0 -> "0" [] d = 1 -> "1" [] d = 2 -> "2" [] d = 3 -> "3"
    [] d = 4 -> "4" [] d = 5 -> "5" [] d = 6 -> "6" [] d = 7 -> "7"
    [] d = 8 -> "8" [] OTHER -> "9"

RECURSIVE StrInt(_)
\* str(n) for an integer n >= 0.
StrInt(n) ==
  IF n < 10 THEN <<Digito(n)>> ELSE StrInt(n \div 10) \o <<Digito(n % 10)>>

RECURSIVE Join(_, _)
\* sep.join(partes)
Join(sep, partes) ==
  IF partes = <<>> THEN <<>>
  ELSE IF Len(partes) = 1 THEN partes[1]
  ELSE partes[1] \o sep \o Join(sep, Tail(partes))

\* str() of a value, as an f-string or print() renders it: a tuple is
\* written "(1, 7)", and "(2,)" when it holds one element.
PyStr(x) ==
  IF x.t = "str" THEN x.v
  ELSE IF x.t = "null" THEN <<"N", "o", "n", "e">>
  ELSE <<"(">> \o Join(<<",", " ">>, [k \in 1..Len(x.v) |-> StrInt(x.v[k])])
         \o (IF Len(x.v) = 1 THEN <<",">> ELSE <<>>) \o <<")">>

(***************************************************************************)
(* The fixed messages of the program.                                      *)
(***************************************************************************)
MsgTimeout ==
  <<"E","r","r","o","r",":"," ","T","i","e","m","p","o"," ","d","e"," ","e",
  "s","p","e","r","a"," ","e","x","c","e","d","i","d","o"," ","a","l"," ",
  "c","o","n","s","u","l","t","a","r"," ","e","l"," ","m","o","d","e","l",
  "o"," ","r","e","m","o","t","o",".">>
MsgErrorModelo ==
  <<"E","r","r","o","r"," ","a","l"," ","c","o","n","s","u","l","t","a","r",
  " ","e","l"," ","m","o","d","e","l","o"," ","r","e","m","o","t","o",":",
  " ">>
MsgSinResultados ==
  <<"N","o"," ","s","e"," ","e","n","c","o","n","t","r","a","r","o","n"," ",
  "r","e","s","u","l","t","a","d","o","s",".">>
MsgDebeSerSelect ==
  <<"L","a"," ","c","o","n","s","u","l","t","a"," ","S","Q","L"," ","d","e",
  "b","e"," ","s","e","r"," ","u","n"," ","S","E","L","E","C","T",".">>
MsgErrorSql ==
  <<"E","r","r","o","r"," ","a","l"," ","e","j","e","c","u","t","a","r"," ",
  "l","a"," ","c","o","n","s","u","l","t","a"," ","S","Q","L",":"," ">>
\* "Pregunta vacia." (the accent of the source's message is dropped).
MsgVacia ==
  <<"P","r","e","g","u","n","t","a"," ","v","a","c","i","a",".">>
MsgNoSePudo ==
  <<"N","o"," ","s","e"," ","p","u","d","o"," ","g","e","n","e","r","a","r",
  " ","l","a"," ","c","o","n","s","u","l","t","a",".">>
MsgInterrumpido ==
  <<"\n","P","r","o","g","r","a","m","a"," ","i","n","t","e","r","r","u",
  "m","p","i","d","o"," ","p","o","r"," ","e","l"," ","u","s","u","a","r",
  "i","o",".">>
EXIT ==
  <<"e","x","i","t">>
SELECT ==
  <<"s","e","l","e","c","t">>

(***************************************************************************)
(* ModeloRemoto.generar_respuesta.  An HTTP event is what requests.post,   *)
(* raise_for_status and json() meet: a timeout, a connection error, an     *)
(* HTTP error status, or a 200 answer with a body.                         *)
(***************************************************************************)
\* The synthetic response of the two except clauses.
Sintetica(texto) == [choices |-> << [message |-> [content |-> Str(texto)]] >>]

\* A well-formed body of the chat-completions service.
Cuerpo(texto) == [json |-> TRUE, doc |-> Sintetica(texto)]

\* jsonReq: whether the installed requests raises its own JSONDecodeError (a
\* RequestException) from json(), or the ValueError of older releases.
generar_respuesta_SinExcept(ev, jsonReq) ==
  IF ev.tipo = "timeout"
  THEN [raised |-> FALSE, exc |-> "", posts |-> 1, valor |-> Sintetica(MsgTimeout)]
  ELSE IF ev.tipo \in {"conexion", "http"}
  THEN [raised |-> TRUE, exc |-> "RequestException", posts |-> 1, valor |-> [x |-> 0]]
  ELSE IF ~ev.cuerpo.json
  THEN [raised |-> TRUE, exc |-> "ValueError", posts |-> 1, valor |-> [x |-> 0]]
  ELSE [raised |-> FALSE, exc |-> "", posts |-> 1, valor |-> ev.cuerpo.doc]

generar_respuesta(ev, jsonReq) ==
  IF ev.tipo = "timeout"
  THEN [raised |-> FALSE, exc |-> "", posts |-> 1, valor |-> Sintetica(MsgTimeout)]
  ELSE IF ev.tipo \in {"conexion", "http"}
  THEN [raised |-> FALSE, exc |-> "", posts |-> 1,
        valor |-> Sintetica(MsgErrorModelo \o ev.e)]
  ELSE IF ~ev.cuerpo.json
  THEN IF jsonReq
       THEN [raised |-> FALSE, exc |-> "", posts |-> 1,
             valor |-> Sintetica(MsgErrorModelo \o ev.e)]
       ELSE [raised |-> TRUE, exc |-> "ValueError", posts |-> 1, valor |-> [x |-> 0]]
  ELSE [raised |-> FALSE, exc |-> "", posts |-> 1, valor |-> ev.cuerpo.doc]

\* respuesta["choices"][0]["message"]["content"]
Contenido(resp) ==
  IF "choices" \notin DOMAIN resp
  THEN [raised |-> TRUE, exc |-> "KeyError", v |-> Nulo]
  ELSE IF Len(resp.choices) = 0
  THEN [raised |-> TRUE, exc |-> "IndexError", v |-> Nulo]
  ELSE [raised |-> FALSE, exc |-> "", v |-> resp.choices[1].message.content]

(***************************************************************************)
(* generar_sql and generar_respuesta_natural: one call of the remote model *)
(* each, then the extraction of the text.  The prompt is not part of the   *)
(* state: the remote model answers any event to any prompt.                *)
(***************************************************************************)
generar_sql(ev, jsonReq) ==
  LET r == generar_respuesta(ev, jsonReq)
      c == Contenido(r.valor)
  IN IF r.raised THEN [raised |-> TRUE, exc |-> r.exc, posts |-> r.posts, sql |-> <<>>]
     ELSE IF c.raised THEN [raised |-> TRUE, exc |-> c.exc, posts |-> r.posts, sql |-> <<>>]
     ELSE IF c.v.t # "str"
     THEN [raised |-> TRUE, exc |-> "AttributeError", posts |-> r.posts, sql |-> <<>>]
     ELSE [raised |-> FALSE, exc |-> "", posts |-> r.posts,
           sql |-> QuitarVallas(Strip(c.v.v))]

generar_respuesta_natural(ev, jsonReq) ==
  LET r == generar_respuesta(ev, jsonReq)
      c == Contenido(r.valor)
  IN IF r.raised THEN [raised |-> TRUE, exc |-> r.exc, posts |-> r.posts, texto |-> <<>>]
     ELSE IF c.raised THEN [raised |-> TRUE, exc |-> c.exc, posts |-> r.posts, texto |-> <<>>]
     ELSE IF c.v.t # "str"
     THEN [raised |-> TRUE, exc |-> "TypeError", posts |-> r.posts, texto |-> <<>>]
     ELSE [raised |-> FALSE, exc |-> "", posts |-> r.posts,
           texto |-> limpiar_markdown(c.v.v)]

(***************************************************************************)
(* The database behind the connection: one table t of two integer columns. *)
(* MySQL reads a statement without regard to the case of its keywords or   *)
(* to the whitespace around it.                                            *)
(***************************************************************************)
SqlSelectTodo ==
  <<"s","e","l","e","c","t"," ","*"," ","f","r","o","m"," ","t">>
SqlSelectCount ==
  <<"s","e","l","e","c","t"," ","c","o","u","n","t","(","*",")"," ","f","r",
  "o","m"," ","t">>
SqlSelectX ==
  <<"s","e","l","e","c","t"," ","x"," ","f","r","o","m"," ","t">>
SqlDelete ==
  <<"d","e","l","e","t","e"," ","f","r","o","m"," ","t">>
ErrSintaxis ==
  <<"1","0","6","4">>
ErrColumna ==
  <<"1","0","5","4">>
ErrConexion ==
  <<"2","0","1","3">>

\* cursor.execute(consulta) on a live connection: the rows it makes ready,
\* the table afterwards, or the error MySQL raises.
DbExecute(tabla, consulta) ==
  LET s == Lower(Strip(consulta))
  IN IF s = SqlSelectTodo
     THEN [ok |-> TRUE, e |-> <<>>, filas |-> tabla, bd |-> tabla]
     ELSE IF s = SqlSelectCount
     THEN [ok |-> TRUE, e |-> <<>>, filas |-> << <<Len(tabla)>> >>, bd |-> tabla]
     ELSE IF s = SqlDelete
     THEN [ok |-> TRUE, e |-> <<>>, filas |-> <<>>, bd |-> <<>>]
     ELSE IF s = SqlSelectX
     THEN [ok |-> FALSE, e |-> ErrColumna, filas |-> <<>>, bd |-> tabla]
     ELSE [ok |-> FALSE, e |-> ErrSintaxis, filas |-> <<>>, bd |-> tabla]

\* Where the connection is lost during one call of ejecutar_sql, if at all.
Caidas == {"no", "cursor", "execute", "fetch"}

\* consulta.strip().lower().startswith("select")
EsSelect(consulta) == StartsWith(Lower(Strip(consulta)), SELECT)

\* ejecutar_sql without its except clause.
ejecutar_sql_SinExcept(tabla, consulta, caida) ==
  IF caida = "cursor"
  THEN [raised |-> TRUE, exc |-> "OperationalError", resultado |-> <<>>,
        bd |-> tabla, enviadas |-> <<>>]
  ELSE
    LET r == IF caida = "execute"
             THEN [ok |-> FALSE, e |-> ErrConexion, filas |-> <<>>, bd |-> tabla]
             ELSE DbExecute(tabla, consulta)
    IN IF ~r.ok \/ (EsSelect(consulta) /\ caida = "fetch")
       THEN [raised |-> TRUE, exc |-> "Error", resultado |-> <<>>,
             bd |-> r.bd, enviadas |-> <<consulta>>]
       ELSE IF EsSelect(consulta)
       THEN [raised |-> FALSE, exc |-> "",
             resultado |-> IF Len(r.filas) = 0 THEN <<Str(MsgSinResultados)>>
                           ELSE [i \in 1..Len(r.filas) |-> Tupla(r.filas[i])],
             bd |-> r.bd, enviadas |-> <<consulta>>]
       ELSE [raised |-> FALSE, exc |-> "", resultado |-> <<Str(MsgDebeSerSelect)>>,
             bd |-> r.bd, enviadas |-> <<consulta>>]

\* enviadas: the statements handed to cursor.execute by the call.
ejecutar_sql(tabla, consulta, caida) ==
  IF caida = "cursor"
  THEN [raised |-> TRUE, exc |-> "OperationalError", resultado |-> <<>>,
        bd |-> tabla, enviadas |-> <<>>]
  ELSE
    LET r == IF caida = "execute"
             THEN [ok |-> FALSE, e |-> ErrConexion, filas |-> <<>>, bd |-> tabla]
             ELSE DbExecute(tabla, consulta)
    IN IF ~r.ok
       THEN [raised |-> FALSE, exc |-> "", resultado |-> <<Str(MsgErrorSql \o r.e)>>,
             bd |-> r.bd, enviadas |-> <<consulta>>]
       ELSE IF EsSelect(consulta)
       THEN IF caida = "fetch"
            THEN [raised |-> FALSE, exc |-> "",
                  resultado |-> <<Str(MsgErrorSql \o ErrConexion)>>,
                  bd |-> r.bd, enviadas |-> <<consulta>>]
            ELSE [raised |-> FALSE, exc |-> "",
                  resultado |-> IF Len(r.filas) = 0 THEN <<Str(MsgSinResultados)>>
                                ELSE [i \in 1..Len(r.filas) |-> Tupla(r.filas[i])],
                  bd |-> r.bd, enviadas |-> <<consulta>>]
       ELSE [raised |-> FALSE, exc |-> "", resultado |-> <<Str(MsgDebeSerSelect)>>,
             bd |-> r.bd, enviadas |-> <<consulta>>]

\* One line of the numbered list: f"{i+1}. {', '.join(str(v) for v in fila)}"
LineaFila(i, fila) ==
  StrInt(i) \o <<".", " ">>
    \o Join(<<",", " ">>, [k \in 1..Len(fila.v) |-> StrInt(fila.v[k])])

formatear_resultado(resultado) ==
  IF Len(resultado) = 1 THEN resultado[1]
  ELSE Str(Join(<<"\n">>, [i \in 1..Len(resultado) |-> LineaFila(i, resultado[i])]))

(***************************************************************************)
(* What the environment may do: the lines the user types, the events of a  *)
(* call to the remote model, and the tables the session may start with.    *)
(***************************************************************************)
Entradas ==
  { <<>>, <<" ", " ">>, <<"e","x","i","t">>, <<" ","E","X","I","T"," ">>, <<"E","x",
    "i","t">>, <<"q","?">> }

Contenidos ==
  { <<>>,
    <<"S","E","L","E","C","T"," ","*"," ","F","R","O","M"," ","t">>,
    <<BQ,BQ,BQ,"s","q","l","\n","S","E","L","E","C","T"," ","C","O","U","N","T","(",
      "*",")"," ","F","R","O","M"," ","t","\n",BQ,BQ,BQ>>,
    <<BQ,BQ,BQ," ","S","E","L","E","C","T"," ","*"," ","F","R","O","M"," ","t",BQ,BQ,BQ>>,
    <<BQ,BQ,BQ,"\n",BQ,BQ,BQ>>,
    <<"s","e","l","e","c","t"," ","x"," ","f","r","o","m"," ","t">>,
    <<"D","E","L","E","T","E"," ","F","R","O","M"," ","t">>,
    <<"*","*","4","2","*","*">>,
    <<"*","*","*","a","*">> }

SinCuerpo == [json |-> TRUE, doc |-> [x |-> 0]]

Eventos ==
  { [tipo |-> "timeout", e |-> <<>>, cuerpo |-> SinCuerpo],
    [tipo |-> "conexion", e |-> <<"r","e","f","u","s","e","d">>, cuerpo |-> SinCuerpo],
    [tipo |-> "http", e |-> <<"5","0","3">>, cuerpo |-> SinCuerpo],
    [tipo |-> "ok", e |-> <<"n","o"," ","j","s","o",
      "n">>, cuerpo |-> [json |-> FALSE, doc |-> [x |-> 0]]],
    [tipo |-> "ok", e |-> <<>>,
     cuerpo |-> [json |-> TRUE, doc |-> [error |-> <<"n","o"," ","m","o","d","e","l">>]]],
    [tipo |-> "ok", e |-> <<>>, cuerpo |-> [json |-> TRUE, doc |-> [choices |-> <<>>]]],
    [tipo |-> "ok", e |-> <<>>,
     cuerpo |-> [json |-> TRUE,
                 doc |-> [choices |-> << [message |-> [content |-> Nulo]] >>]]] }
  \cup { [tipo |-> "ok", e |-> <<>>, cuerpo |-> Cuerpo(c)] : c \in Contenidos }

Tablas == { <<>>, << <<1, 7>> >>, << <<1, 7>>, <<2, 8>> >> }

(***************************************************************************)
(* State of a session.                                                     *)
(***************************************************************************)
VARIABLES
  pc,          \* where main stands: "input", a stage of the cycle, or an end
  excepcion,   \* the exception that left main, "" when none did
  n,           \* questions read so far
  entrada,     \* the line input() returned in this cycle
  pregunta,    \* main's pregunta
  sql,         \* main's sql
  resultado,   \* what ejecutar_sql returned in this cycle
  formateado,  \* main's resultado, what formatear_resultado returned
  respuesta,   \* main's respuesta
  bd0,         \* table t when the session started
  bd,          \* table t as the connection sees it
  salida,      \* what this cycle printed
  etapas,      \* the stages this cycle ran
  enviadas,    \* the statements this cycle handed to cursor.execute
  intentos,    \* HTTP requests made since the session started
  ultima,      \* the last call of generar_respuesta: its event and its return
  tipoSql,     \* the event type of this cycle's call in generar_sql
  ejec,        \* the last call of ejecutar_sql in this cycle
  md           \* the text under limpiar_markdown (second specification)

vars ==
  << pc, excepcion, n, entrada, pregunta, sql, resultado, formateado, respuesta,
     bd0, bd, salida, etapas, enviadas, intentos, ultima, tipoSql, ejec, md >>

SinLlamada == [hecho |-> FALSE, ev |-> [tipo |-> ""], jsonReq |-> FALSE,
               ret |-> [raised |-> FALSE, posts |-> 0, valor |-> [x |-> 0]]]
SinEjec == [hecho |-> FALSE, caida |-> "no", antes |-> <<>>, raised |-> FALSE]
MdQuieto == [paso |-> 0, texto |-> <<>>, una |-> <<>>, dos |-> <<>>]

Init ==
  /\ pc = "input"
  /\ excepcion = ""
  /\ n = 0
  /\ entrada = <<>>
  /\ pregunta = <<>>
  /\ sql = <<>>
  /\ resultado = <<>>
  /\ formateado = Str(<<>>)
  /\ respuesta = <<>>
  /\ bd0 \in Tablas
  /\ bd = bd0
  /\ salida = <<>>
  /\ etapas = <<>>
  /\ enviadas = <<>>
  /\ intentos = 0
  /\ ultima = SinLlamada
  /\ tipoSql = ""
  /\ ejec = SinEjec
  /\ md = MdQuieto

(***************************************************************************)
(* main: the loop, one action per statement that calls out.                *)
(***************************************************************************)
\* input(...).strip()
LeerLinea_SinStrip(linea) == linea

LeerLinea(linea) == Strip(linea)

\* pregunta.lower() == "exit"
EsExit(p) == Lower(p) = EXIT

\* not pregunta
EsVacia(p) == p = <<>>

Linea(canal, texto) == [canal |-> canal, texto |-> texto]

\* Reads a line; stops on exit, reports a blank line, starts a cycle
\* otherwise.  The locals of the previous cycle are dead here (each is
\* assigned again before it is read) and are cleared.
LeerPregunta ==
  /\ pc = "input"
  /\ n < MaxCiclos
  /\ \E linea \in Entradas :
       LET p == LeerLinea(linea)
       IN /\ entrada' = linea
          /\ pregunta' = p
          /\ pc' = IF EsExit(p) THEN "fin"
                   ELSE IF EsVacia(p) THEN "input" ELSE "generar_sql"
          /\ salida' = IF ~EsExit(p) /\ EsVacia(p)
                       THEN <<Linea("aviso", MsgVacia)>> ELSE <<>>
  /\ n' = n + 1
  /\ sql' = <<>>
  /\ resultado' = <<>>
  /\ formateado' = Str(<<>>)
  /\ respuesta' = <<>>
  /\ etapas' = <<>>
  /\ enviadas' = <<>>
  /\ ultima' = SinLlamada
  /\ tipoSql' = ""
  /\ ejec' = SinEjec
  /\ UNCHANGED <<excepcion, bd0, bd, intentos, md>>

\* input() at the end of the input stream raises EOFError, which nothing in
\* main or around it catches.
FinDeEntrada ==
  /\ pc = "input"
  /\ pc' = "error"
  /\ excepcion' = "EOFError"
  /\ UNCHANGED <<n, entrada, pregunta, sql, resultado, formateado, respuesta, bd0,
                 bd, salida, etapas, enviadas, intentos, ultima, tipoSql, ejec, md>>

\* sql = generar_sql(...); an empty sql goes back to input() with nothing
\* printed; otherwise the SQL is printed.
GenerarSql ==
  /\ pc = "generar_sql"
  /\ \E ev \in Eventos, jsonReq \in BOOLEAN :
       LET r == generar_sql(ev, jsonReq)
       IN /\ ultima' = [hecho |-> TRUE, ev |-> ev, jsonReq |-> jsonReq,
                        ret |-> generar_respuesta(ev, jsonReq)]
          /\ tipoSql' = ev.tipo
          /\ intentos' = intentos + r.posts
          /\ IF r.raised
             THEN /\ pc' = "error"
                  /\ excepcion' = r.exc
                  /\ UNCHANGED <<sql, salida>>
             ELSE IF r.sql = <<>>
             THEN /\ pc' = "input"
                  /\ sql' = MsgNoSePudo
                  /\ UNCHANGED <<excepcion, salida>>
             ELSE /\ pc' = "ejecutar_sql"
                  /\ sql' = r.sql
                  /\ salida' = Append(salida, Linea("sql", r.sql))
                  /\ UNCHANGED excepcion
  /\ etapas' = Append(etapas, "generar_sql")
  /\ UNCHANGED <<n, entrada, pregunta, resultado, formateado, respuesta, bd0, bd,
                 enviadas, ejec, md>>

\* ejecutar_sql(conexion, sql)
EjecutarSql ==
  /\ pc = "ejecutar_sql"
  /\ \E caida \in Caidas :
       LET r == ejecutar_sql(bd, sql, caida)
       IN /\ ejec' = [hecho |-> TRUE, caida |-> caida, antes |-> bd,
                      raised |-> r.raised]
          /\ bd' = r.bd
          /\ enviadas' = enviadas \o r.enviadas
          /\ resultado' = r.resultado
          /\ pc' = IF r.raised THEN "error" ELSE "formatear_resultado"
          /\ excepcion' = IF r.raised THEN r.exc ELSE excepcion
  /\ etapas' = Append(etapas, "ejecutar_sql")
  /\ UNCHANGED <<n, entrada, pregunta, sql, formateado, respuesta, bd0, salida,
                 intentos, ultima, tipoSql, md>>

\* resultado = formatear_resultado(...); print(f"Resultado:\n{resultado}\n")
FormatearResultado ==
  /\ pc = "formatear_resultado"
  /\ formateado' = formatear_resultado(resultado)
  /\ salida' = Append(salida, Linea("resultado", PyStr(formatear_resultado(resultado))))
  /\ etapas' = Append(etapas, "formatear_resultado")
  /\ pc' = "generar_respuesta_natural"
  /\ UNCHANGED <<excepcion, n, entrada, pregunta, sql, resultado, respuesta, bd0, bd,
                 enviadas, intentos, ultima, tipoSql, ejec, md>>

\* respuesta = generar_respuesta_natural(...); print(f"Respuesta:\n{respuesta}\n")
GenerarRespuestaNatural ==
  /\ pc = "generar_respuesta_natural"
  /\ \E ev \in Eventos, jsonReq \in BOOLEAN :
       LET r == generar_respuesta_natural(ev, jsonReq)
       IN /\ ultima' = [hecho |-> TRUE, ev |-> ev, jsonReq |-> jsonReq,
                        ret |-> generar_respuesta(ev, jsonReq)]
          /\ intentos' = intentos + r.posts
          /\ IF r.raised
             THEN /\ pc' = "error"
                  /\ excepcion' = r.exc
                  /\ UNCHANGED <<respuesta, salida>>
             ELSE /\ pc' = "input"
                  /\ respuesta' = r.texto
                  /\ salida' = Append(salida, Linea("respuesta", r.texto))
                  /\ UNCHANGED excepcion
  /\ etapas' = Append(etapas, "generar_respuesta_natural")
  /\ UNCHANGED <<n, entrada, pregunta, sql, resultado, formateado, bd0, bd,
                 enviadas, tipoSql, ejec, md>>

\* KeyboardInterrupt, caught around main(): the message, and the end.
Interrumpir ==
  /\ pc \in {"input", "generar_sql", "ejecutar_sql", "formatear_resultado",
             "generar_respuesta_natural"}
  /\ pc' = "interrumpido"
  /\ salida' = Append(salida, Linea("aviso", MsgInterrumpido))
  /\ UNCHANGED <<excepcion, n, entrada, pregunta, sql, resultado, formateado,
                 respuesta, bd0, bd, etapas, enviadas, intentos, ultima, tipoSql,
                 ejec, md>>

Next ==
  \/ LeerPregunta
  \/ FinDeEntrada
  \/ GenerarSql
  \/ EjecutarSql
  \/ FormatearResultado
  \/ GenerarRespuestaNatural
  \/ Interrumpir

Spec == Init /\ [][Next]_vars

(***************************************************************************)
(* Second specification: limpiar_markdown applied once and then again to   *)
(* every text of at most MaxLenTexto characters, and to two longer ones.   *)
(***************************************************************************)
Alfabeto == {"*", "_", BQ, "a", " ", "\n"}

\* Two longer texts, runs of four delimiters around a letter.
Ejemplos ==
  { <<"*", "*", "*", "*", "a", "*", "*", "*", "*">>,
    <<"_", "_", "_", "_", "a", "_", "_", "_", "_">> }

Textos == UNION {[1..k -> Alfabeto] : k \in 0..MaxLenTexto} \cup Ejemplos

InitMd ==
  /\ pc = "input"
  /\ excepcion = ""
  /\ n = 0
  /\ entrada = <<>>
  /\ pregunta = <<>>
  /\ sql = <<>>
  /\ resultado = <<>>
  /\ formateado = Str(<<>>)
  /\ respuesta = <<>>
  /\ bd0 = <<>>
  /\ bd = <<>>
  /\ salida = <<>>
  /\ etapas = <<>>
  /\ enviadas = <<>>
  /\ intentos = 0
  /\ ultima = SinLlamada
  /\ tipoSql = ""
  /\ ejec = SinEjec
  /\ \E t \in Textos : md = [paso |-> 0, texto |-> t, una |-> <<>>, dos |-> <<>>]

Limpiar ==
  /\ md.paso = 0
  /\ md' = [md EXCEPT !.paso = 1, !.una = limpiar_markdown(md.texto)]
  /\ UNCHANGED <<pc, excepcion, n, entrada, pregunta, sql, resultado, formateado,
                 respuesta, bd0, bd, salida, etapas, enviadas, intentos, ultima,
                 tipoSql, ejec>>

LimpiarOtraVez ==
  /\ md.paso = 1
  /\ md' = [md EXCEPT !.paso = 2, !.dos = limpiar_markdown(md.una)]
  /\ UNCHANGED <<pc, excepcion, n, entrada, pregunta, sql, resultado, formateado,
                 respuesta, bd0, bd, salida, etapas, enviadas, intentos, ultima,
                 tipoSql, ejec>>

NextMd ==
  \/ Limpiar
  \/ LimpiarOtraVez

SpecMd == InitMd /\ [][NextMd]_vars

(***************************************************************************)
(* Properties.                                                             *)
(***************************************************************************)
Ciclo == <<"generar_sql", "ejecutar_sql", "formatear_resultado",
           "generar_respuesta_natural">>

Canales(s) == [i \in 1..Len(s) |-> s[i].canal]

\* C1: a statement whose trimmed, lower-cased text does not begin with
\* "select" is never handed to the database connection, and table t stays
\* as it was when the session started.
C1_NoSelectNuncaEnviada ==
  /\ \A i \in 1..Len(enviadas) : EsSelect(enviadas[i])
  /\ bd = bd0

\* C2: for a statement that does not begin with "select", ejecutar_sql
\* returns the one-element list holding "La consulta SQL debe ser un
\* SELECT.", whatever the statement.
C2_RechazoFijo ==
  (ejec.hecho /\ ~EsSelect(sql)) =>
     /\ ~ejec.raised
     /\ resultado = <<Str(MsgDebeSerSelect)>>

\* The outcome the database gave the last call of ejecutar_sql.
EjecFalla ==
  \/ ejec.caida = "execute"
  \/ ~DbExecute(ejec.antes, sql).ok
  \/ ejec.caida = "fetch" /\ EsSelect(sql)

EjecError ==
  IF ejec.caida = "execute" THEN ErrConexion
  ELSE IF ~DbExecute(ejec.antes, sql).ok THEN DbExecute(ejec.antes, sql).e
  ELSE ErrConexion

\* C3: when the statement fails in execute or in fetchall, ejecutar_sql
\* does not raise and returns a one-element list with a message that ends
\* in the error description; a SELECT that succeeds returns the "no
\* results" one-element list for zero rows and the rows themselves
\* otherwise.
C3_ErroresContenidos ==
  (ejec.hecho /\ ejec.caida # "cursor") =>
     /\ ~ejec.raised
     /\ EjecFalla =>
          /\ Len(resultado) = 1
          /\ resultado[1].t = "str"
          /\ resultado[1].v = MsgErrorSql \o EjecError
     /\ (~EjecFalla /\ EsSelect(sql)) =>
          LET filas == DbExecute(ejec.antes, sql).filas
          IN IF filas = <<>> THEN resultado = <<Str(MsgSinResultados)>>
             ELSE /\ Len(resultado) = Len(filas)
                  /\ \A i \in 1..Len(filas) : resultado[i] = Tupla(filas[i])

C3_Testigo ==
  /\ ejec.hecho
  /\ ejec.caida = "no"
  /\ EsSelect(sql)
  /\ ~DbExecute(ejec.antes, sql).ok
  /\ pc = "formatear_resultado"
  /\ resultado = <<Str(MsgErrorSql \o ErrColumna)>>

\* The string form of a value: a one-scalar row gives its scalar's.
ComoTexto(x) ==
  IF x.t = "tuple" /\ Len(x.v) = 1 THEN StrInt(x.v[1]) ELSE PyStr(x)

\* C4: for a one-element result list formatear_resultado returns the string
\* form of the element: the message of a sentinel, "2" for [(2,)].
C4_UnElemento ==
  (pc = "generar_respuesta_natural" /\ Len(resultado) = 1) =>
     formateado = Str(ComoTexto(resultado[1]))

\* C5: when the HTTP call times out, cannot connect or gets an error
\* status, generar_respuesta makes one request, does not raise, and returns
\* choices[0].message.content holding a non-empty error text: the fixed
\* message after a timeout, a message ending in the error otherwise.
C5_SinExcepcion ==
  (ultima.hecho /\ ultima.ev.tipo \in {"timeout", "conexion", "http"}) =>
     /\ ~ultima.ret.raised
     /\ ultima.ret.posts = 1
     /\ "choices" \in DOMAIN ultima.ret.valor
     /\ Len(ultima.ret.valor.choices) = 1
     /\ LET c == ultima.ret.valor.choices[1].message.content
        IN /\ c.t = "str"
           /\ c.v # <<>>
           /\ c.v = IF ultima.ev.tipo = "timeout" THEN MsgTimeout
                    ELSE MsgErrorModelo \o ultima.ev.e

C5_Testigo ==
  /\ ultima.hecho
  /\ ultima.ev.tipo = "http"
  /\ pc = "ejecutar_sql"
  /\ sql = MsgErrorModelo \o ultima.ev.e

\* C6: when the loop is back at input() after a question that is neither
\* blank nor exit, the cycle has run the four stages in order and printed
\* the SQL, the formatted result and the answer.
C6_CicloCompleto ==
  (pc = "input" /\ n > 0 /\ ~EsVacia(pregunta)) =>
     /\ etapas = Ciclo
     /\ Canales(salida) = <<"sql", "resultado", "respuesta">>

\* C7: reading a line that is blank after trimming prints the message and
\* leaves the loop at input(); reading exit in any letter case stops the
\* loop; neither makes an HTTP request nor hands a statement to the
\* database.
C7_VaciaYExit ==
  [][ n' = n + 1 =>
        /\ Strip(entrada') = <<>> =>
             /\ pc' = "input"
             /\ salida' = <<Linea("aviso", MsgVacia)>>
        /\ Lower(Strip(entrada')) = EXIT =>
             /\ pc' = "fin"
             /\ salida' = <<>>
        /\ (Strip(entrada') = <<>> \/ Lower(Strip(entrada')) = EXIT) =>
             /\ intentos' = intentos
             /\ enviadas' = <<>>
             /\ etapas' = <<>>
             /\ bd' = bd ]_vars

C7_Testigo ==
  /\ pc = "fin"
  /\ n = 2
  /\ intentos = 0
  /\ entrada # EXIT
  /\ Lower(Strip(entrada)) = EXIT

\* C8: when the call in generar_sql times out or cannot connect, the error
\* text is the statement, and the cycle goes on through ejecutar_sql (a
\* one-element result), formatear_resultado and the second call, prints an
\* answer and is back at input() with no exception.
C8_FalloDeTransporteSigue ==
  (tipoSql \in {"timeout", "conexion"}) =>
     /\ pc # "error"
     /\ \E ev \in Eventos :
          /\ ev.tipo = tipoSql
          /\ sql = IF tipoSql = "timeout" THEN MsgTimeout ELSE MsgErrorModelo \o ev.e
     /\ ejec.hecho => Len(resultado) = 1
     /\ pc = "input" =>
          /\ etapas = Ciclo
          /\ Canales(salida) = <<"sql", "resultado", "respuesta">>

\* C9: once the loop is entered no exception leaves it.
C9_SinCaida == pc # "error"

\* C10: limpiar_markdown applied twice gives what it gives applied once.
C10_Idempotente == md.paso = 2 => md.dos = md.una

=============================================================================
